---------------------------- MODULE Spec2Model ----------------------------
(***************************************************************************)
(* Hilal visibility dashboard: the crescent-visibility evaluator           *)
(* (calculate), the batch worker (worker.js), the DuckDB result cache      *)
(* (db.js) and the grid controller of the App component.                   *)
(*                                                                         *)
(* Three specifications share the variables:                               *)
(*   SpecCalc   calculate and the worker's onmessage, over ephemeris       *)
(*              outcomes drawn from bounded sets;                          *)
(*   SpecCache  getCachedResults / cacheResults over the results table;    *)
(*   Spec       the App controller: events, grid updates, worker batches   *)
(*              and their completion handlers.                             *)
(*                                                                         *)
(* Angles are fixed point: ARCV and the threshold polynomial in 1e-4       *)
(* degree, the criterion value in 1e-5.  The crescent width WTopo is in    *)
(* whole arc minutes.  Event times (ut) are integers.                      *)
(***************************************************************************)
EXTENDS Integers, Sequences, FiniteSets, TLC

VARIABLES
  \* ---- evaluator / worker (SpecCalc)
  ephem,        \* what the ephemeris library returns for the observed point
  opts,         \* the options argument {evening, yallop}
  details,      \* <<>> or <<the object calculate returned>>
  posted,       \* <<>> or <<the array the worker posted>>
  \* ---- result cache (SpecCache and Spec)
  conn,         \* db.js: TRUE once initDB has connected and created the table
  rows,         \* the results table, rows in insertion order
  lookup,       \* <<>> or <<the getCachedResults call just made, with its return>>
  insertLog,    \* history: the cacheResults calls made so far, in order
  dbInit,       \* initDB as the App calls it: "pending", "ready", or rejected
                \* "early" (db still null) or "late" (db assigned, conn null);
                \* "resolving" while a call on the late outcome returns
  \* ---- cell outlines (SpecGeo)
  boundary,     \* what h3.cellToBoundary returned for the cell
  feature,      \* <<>> or <<the feature getAntimeridianSafeFeature returned>>
  \* ---- App controller (Spec): React state
  date,         \* the selected instant, in ticks
  elevation,    \* observer elevation, in decimetres
  manualRes,    \* <<>> (Auto) or <<r>>
  mapLoaded,
  dbReady,
  recalculating,
  \* ---- the map
  zoom,         \* in tenths
  view,         \* the viewport: the set of grid positions it covers
  \* ---- refs
  displayedResults,   \* the working set: cell id -> {id, qcode, color}
  currentResolution,
  onmessage,    \* what the handler of the current worker closed over
  \* ---- in flight
  inbox,        \* batches posted to the current worker, not yet computed
  outbox,       \* completion messages of the worker, not yet handled
  dbQueue,      \* awaits on the database, resumed in the order they were issued
  emitted,      \* <<>> or <<the working set last given to the renderer>>
  events,       \* user and map events so far
  \* ---- history
  mergedFor,    \* cell id -> the (date, elevation) its entry was obtained for
  lastDispatch, \* <<>> or <<the last grid update that reached its dispatch>>
  lastDone,     \* <<>> or <<the last batch whose completion was handled>>
  \* ---- initDB step by step (SpecInit)
  db,           \* db.js: 0 (null) or the number of the AsyncDuckDB assigned
  connOf,       \* db.js: 0 (conn null) or the database conn is connected to
  instances,    \* the AsyncDuckDB instances created: [ready, rows] each
  calls         \* the calls of db.js functions made so far, each with the
                \* await it stands at

geoVars == <<boundary, feature>>
initVars == <<db, connOf, instances, calls>>
calcVars == <<ephem, opts, details, posted>>
cacheVars == <<conn, rows>>
harnessVars == <<lookup, insertLog>>
stateVars == <<date, elevation, manualRes, mapLoaded, dbReady, zoom, view>>
refVars == <<displayedResults, currentResolution, mergedFor, emitted>>
flightVars == <<inbox, outbox, dbQueue>>
appVars == <<stateVars, recalculating, refVars, onmessage, flightVars, events,
             lastDispatch, lastDone>>

vars == <<geoVars, calcVars, cacheVars, harnessVars, dbInit, appVars, initVars>>

-----------------------------------------------------------------------------
(* Bounds of the model                                                     *)

MaxW == 1          \* WTopo ranges over 0..MaxW arc minutes
MaxOff == 2        \* distance of the sun event to either new moon, 0..MaxOff
MaxLag == 1        \* moon event within MaxLag of the sun event
TicksPerDay == 2   \* a date is an instant counted in ticks; a UTC day has TicksPerDay
MaxInserts == 2    \* cacheResults calls in a run of SpecCache
MaxEvents == 2     \* user and map events in a run of Spec

-----------------------------------------------------------------------------
(* calculate (moonNow.js 67-183)                                           *)

NoEvent == <<>>    \* SearchRiseSet returned null

\* 11.8371 - 6.3226 W + 0.7319 W^2 - 0.1018 W^3, in 1e-4 degree
YallopPoly(w) == 118371 - 63226 * w + 7319 * w * w - 1018 * w * w * w

\* 7.1651 - 6.3226 W + 0.7319 W^2 - 0.1018 W^3, in 1e-4 degree
AltPoly(w) == 71651 - 63226 * w + 7319 * w * w - 1018 * w * w * w

\* the if/else ladder of the Yallop branch; value in 1e-5
YallopLetterStrictB(value) ==
  IF value > 21600 THEN "A"
  ELSE IF value >= -1400 THEN "B"
  ELSE IF value > -16000 THEN "C"
  ELSE IF value > -23200 THEN "D"
  ELSE IF value > -29300 THEN "E"
  ELSE "F"

YallopLetter(value) ==
  IF value > 21600 THEN "A"
  ELSE IF value > -1400 THEN "B"
  ELSE IF value > -16000 THEN "C"
  ELSE IF value > -23200 THEN "D"
  ELSE IF value > -29300 THEN "E"
  ELSE "F"

\* the if/else ladder of the alternate branch; value in 1e-5
AltLetterStrict(value) ==
  IF value > 565000 THEN "A"
  ELSE IF value >= 200000 THEN "C"
  ELSE IF value >= -96000 THEN "E"
  ELSE "F"

AltLetter(value) ==
  IF value >= 565000 THEN "A"
  ELSE IF value >= 200000 THEN "C"
  ELSE IF value >= -96000 THEN "E"
  ELSE "F"

\* lagTime = (moonsetMoonrise.ut - sunsetSunrise.ut) * (evening ? 1 : -1)
LagTime(sunUt, moonUt, evening) ==
  (moonUt - sunUt) * (IF evening THEN 1 ELSE -1)

\* the new moon nearest to the sun event; a tie goes to the previous one
NewMoonNearest(sunUt, prevUt, nextUt) ==
  IF sunUt - prevUt <= nextUt - sunUt THEN prevUt ELSE nextUt

BeforeNewMoon(sunUt, prevUt, nextUt, evening) ==
  (sunUt - NewMoonNearest(sunUt, prevUt, nextUt))
     * (IF evening THEN 1 ELSE -1) < 0

\* the three conditional stores of lines 105-107, in order
ShortCircuitCode(lagTime, beforeNewMoon) ==
  LET q0 == " "
      q1 == IF lagTime < 0 /\ beforeNewMoon THEN "J" ELSE q0
      q2 == IF lagTime < 0 THEN "I" ELSE q1
      q3 == IF beforeNewMoon THEN "G" ELSE q2
  IN  q3

\* value of the Yallop branch, (ARCV - poly) / 10, in 1e-5
YallopValueNoDiv(arcv, w) == (arcv - YallopPoly(w)) * 10

YallopValue(arcv, w) == ((arcv - YallopPoly(w)) * 10) \div 10

\* value of the alternate branch, ARCV - poly, in 1e-5
AltValueDiv(arcv, w) == ((arcv - AltPoly(w)) * 10) \div 10

AltValue(arcv, w) == (arcv - AltPoly(w)) * 10

\* const { evening = true, yallop = true } = options
WithDefaults(options) ==
  [ evening |-> IF "evening" \in DOMAIN options THEN options.evening ELSE TRUE,
    yallop  |-> IF "yallop" \in DOMAIN options THEN options.yallop ELSE TRUE ]

\* calculate with the early return dropped: a missing event is evaluated
\* as an event at time 0
CalculateNoGuard(e, options) ==
  LET o      == WithDefaults(options)
      sunUt  == IF e.sun = NoEvent THEN 0 ELSE e.sun[1]
      moonUt == IF e.moon = NoEvent THEN 0 ELSE e.moon[1]
      value  == IF o.yallop THEN YallopValue(e.arcv, e.wTopo)
                ELSE AltValue(e.arcv, e.wTopo)
  IN  [ qcode |-> IF o.yallop THEN YallopLetter(value) ELSE AltLetter(value),
        lagTime |-> LagTime(sunUt, moonUt, o.evening),
        newMoonPrev |-> e.newMoonPrev, newMoonNext |-> e.newMoonNext,
        arcv |-> e.arcv, wTopo |-> e.wTopo, value |-> value ]

\* e: the ephemeris outcomes for (latitude, longitude, altitude, baseTime)
Calculate(e, options) ==
  IF e.sun = NoEvent \/ e.moon = NoEvent
  THEN [qcode |-> "H"]
  ELSE
    LET o             == WithDefaults(options)
        lagTime       == LagTime(e.sun[1], e.moon[1], o.evening)
        beforeNewMoon == BeforeNewMoon(e.sun[1], e.newMoonPrev,
                                       e.newMoonNext, o.evening)
        early         == ShortCircuitCode(lagTime, beforeNewMoon)
        value         == IF o.yallop THEN YallopValue(e.arcv, e.wTopo)
                         ELSE AltValue(e.arcv, e.wTopo)
        result        == IF o.yallop THEN YallopLetter(value)
                         ELSE AltLetter(value)
    IN  \* line 163 stores result over whatever lines 105-107 stored
        [ qcode |-> result,
          lagTime |-> lagTime,
          newMoonPrev |-> e.newMoonPrev, newMoonNext |-> e.newMoonNext,
          arcv |-> e.arcv, wTopo |-> e.wTopo, value |-> value ]

\* getCellColor of worker.js
GetCellColor(qcode) ==
  CASE qcode = "A" -> "#22c55e"
    [] qcode = "B" -> "#84cc16"
    [] qcode = "C" -> "#2dd4bf"
    [] qcode = "D" -> "#facc15"
    [] qcode = "E" -> "#fb923c"
    [] qcode = "F" -> "rgba(0, 0, 0, 0)"
    [] qcode = "G" -> "#a855f7"
    [] qcode = "H" -> "#3b82f6"
    [] qcode = "I" -> "#ef4444"
    [] qcode = "J" -> "rgba(0, 0, 0, 0)"
    [] OTHER -> "rgba(0,0,0,0)"

\* cellToLatLng of the grid library, for a cell <<resolution, position>>
CellToLatLng(h) == <<10 * h[2], h[1]>>

\* The ephemeris of the controller's runs: a fixed sky in which the
\* outcome differs from instant to instant, with the elevation and from
\* cell to cell (one combination in seven has no moonset).
SkyTable(point, altitude, instant) ==
  LET k == (point.lat \div 10 + 2 * point.lng + instant + 3 * (altitude % 10)) % 7
  IN  [ sun |-> <<MaxOff + MaxLag>>,
        moon |-> IF k = 6 THEN NoEvent ELSE <<MaxOff + MaxLag + 1>>,
        newMoonPrev |-> MaxLag,
        newMoonNext |-> 2 * MaxOff + MaxLag,
        arcv |-> YallopPoly(0) + 30000 - 12000 * k,
        wTopo |-> 0 ]

\* what the astronomy library returns to calculate: in SpecCalc the
\* outcomes drawn at the start, in Spec the fixed sky
Astronomy(point, altitude, instant) ==
  IF ephem # <<>> THEN ephem[1] ELSE SkyTable(point, altitude, instant)

\* new Astronomy.Observer(latitude, ...) of line 72 raises on a latitude
\* outside -90..90; calculate has no handler
Raises(point) == point.lat < -90 \/ point.lat > 90

\* points.map(...) of worker.js raises, so line 15 is not reached
BatchRaises(data) == \E i \in 1..Len(data.points) : Raises(data.points[i])

\* self.onmessage of worker.js: one result per point, in order
WorkerOnMessageNoColor(data) ==
  [ i \in 1..Len(data.points) |->
      LET res == Calculate(Astronomy(data.points[i], data.elevation, data.date),
                           data.options)
      IN  [id |-> data.points[i].id, qcode |-> res.qcode,
           color |-> GetCellColor(" ")] ]

\* the worker tagging every result with the id of the first point
WorkerOnMessageFirstId(data) ==
  [ i \in 1..Len(data.points) |->
      LET res == Calculate(Astronomy(data.points[i], data.elevation, data.date),
                           data.options)
      IN  [id |-> data.points[1].id, qcode |-> res.qcode,
           color |-> GetCellColor(res.qcode)] ]

WorkerOnMessage(data) ==
  [ i \in 1..Len(data.points) |->
      LET res == Calculate(Astronomy(data.points[i], data.elevation, data.date),
                           data.options)
      IN  [id |-> data.points[i].id, qcode |-> res.qcode,
           color |-> GetCellColor(res.qcode)] ]

-----------------------------------------------------------------------------
(* getAntimeridianSafeFeature (part_001 127-144)                           *)
(* A boundary is the sequence of <<lat, lng>> vertices h3.cellToBoundary   *)
(* returns, in whole degrees; a ring is a sequence of <<lng, lat>>.        *)

Abs(x) == IF x < 0 THEN 0 - x ELSE x

\* const lngs = boundary.map(b => b[1])
Lngs(bnd) == [i \in 1..Len(bnd) |-> bnd[i][2]]

\* the wrap test without the step from the last vertex to the first
CrossesOpen(lngs) ==
  \E i \in 1..(Len(lngs) - 1) : Abs(lngs[i] - lngs[i + 1]) > 180

\* the loop of lines 130-134: next = lngs[(i + 1) % lngs.length]
Crosses(lngs) ==
  \E i \in 1..Len(lngs) : Abs(lngs[i] - lngs[(i % Len(lngs)) + 1]) > 180

\* coords.push(coords[0])
CloseRing(coords) == Append(coords, coords[1])

\* boundary.map(b => [b[1] < 0 ? b[1] + 360 : b[1], b[0]])
LeftCoords(bnd) ==
  [i \in 1..Len(bnd) |->
     <<IF bnd[i][2] < 0 THEN bnd[i][2] + 360 ELSE bnd[i][2], bnd[i][1]>>]

\* boundary.map(b => [b[1] > 0 ? b[1] - 360 : b[1], b[0]])
RightCoords(bnd) ==
  [i \in 1..Len(bnd) |->
     <<IF bnd[i][2] > 0 THEN bnd[i][2] - 360 ELSE bnd[i][2], bnd[i][1]>>]

GetAntimeridianSafeFeature(bnd, color) ==
  IF ~Crosses(Lngs(bnd))
  THEN [ type |-> "Feature", properties |-> [color |-> color],
         geometry |-> [ type |-> "Polygon",
                        coordinates |->
                          <<CloseRing([i \in 1..Len(bnd) |->
                                         <<bnd[i][2], bnd[i][1]>>])>> ] ]
  ELSE [ type |-> "Feature", properties |-> [color |-> color],
         geometry |-> [ type |-> "MultiPolygon",
                        coordinates |-> << <<CloseRing(LeftCoords(bnd))>>,
                                           <<CloseRing(RightCoords(bnd))>> >> ] ]

-----------------------------------------------------------------------------
(* SpecCalc: calculate and the worker over bounded ephemeris outcomes      *)

SunUt == MaxOff + MaxLag

\* the band edges of both ladders as ARCV inputs, one unit either side
BandEdges(w) ==
  {YallopPoly(w) + t : t \in {21600, -1400, -16000, -23200, -29300}}
    \cup {AltPoly(w) + t : t \in {56500, 20000, -9600}}

ArcvInputs ==
  UNION {{b - 1, b, b + 1} : b \in UNION {BandEdges(w) : w \in 0..MaxW}}

EphemInputs ==
  [ sun : {NoEvent, <<SunUt>>},
    moon : {NoEvent} \cup {<<SunUt + d>> : d \in (-MaxLag)..MaxLag},
    newMoonPrev : {SunUt - d : d \in 0..MaxOff},
    newMoonNext : {SunUt + d : d \in 0..MaxOff},
    arcv : ArcvInputs,
    wTopo : 0..MaxW ]

OptionInputs ==
  { [k \in {} |-> TRUE], [yallop |-> TRUE], [yallop |-> FALSE],
    [evening |-> FALSE], [evening |-> FALSE, yallop |-> FALSE] }

\* the one point of the batch in SpecCalc
ProbePoint == [id |-> "p", lat |-> 0, lng |-> 0]

HarnessIdle == lookup = <<>> /\ insertLog = <<>>
GeoIdle == boundary = <<>> /\ feature = <<>>
InitIdle == db = 0 /\ connOf = 0 /\ instances = <<>> /\ calls = <<>>
CacheIdle == conn = FALSE /\ rows = <<>> /\ HarnessIdle
AppIdle ==
  /\ dbInit = "pending"
  /\ date = 0 /\ elevation = 0 /\ manualRes = <<>>
  /\ mapLoaded = FALSE /\ dbReady = FALSE /\ recalculating = FALSE
  /\ zoom = 0 /\ view = {}
  /\ displayedResults = <<>> /\ currentResolution = 0 /\ onmessage = <<>>
  /\ inbox = <<>> /\ outbox = <<>> /\ dbQueue = <<>> /\ emitted = <<>>
  /\ events = 0 /\ mergedFor = <<>> /\ lastDispatch = <<>> /\ lastDone = <<>>

CalcInit ==
  /\ ephem \in {<<e>> : e \in EphemInputs}
  /\ opts \in OptionInputs
  /\ details = <<>>
  /\ posted = <<>>
  /\ CacheIdle /\ AppIdle /\ GeoIdle /\ InitIdle

\* a direct call calculate(lat, lng, altitude, date, opts)
CallCalculate ==
  /\ details = <<>>
  /\ details' = <<Calculate(ephem[1], opts)>>
  /\ UNCHANGED <<geoVars, initVars, dbInit,
                 ephem, opts, posted, cacheVars, harnessVars, appVars>>

\* the worker receives a one-point batch and posts its results
WorkerReceive ==
  /\ posted = <<>>
  /\ posted' = <<WorkerOnMessage([points |-> <<ProbePoint>>, elevation |-> 0,
                                  date |-> 0, options |-> opts])>>
  /\ UNCHANGED <<geoVars, initVars, dbInit,
                 ephem, opts, details, cacheVars, harnessVars, appVars>>

CalcNext == CallCalculate \/ WorkerReceive

SpecCalc == CalcInit /\ [][CalcNext]_vars

\* what the claims about calculate speak of, read off the inputs
In == ephem[1]
BothFound == In.sun # NoEvent /\ In.moon # NoEvent
Evening == WithDefaults(opts).evening
UseYallop == WithDefaults(opts).yallop
InLag == (In.moon[1] - In.sun[1]) * (IF Evening THEN 1 ELSE -1)
InNearest ==
  IF In.sun[1] - In.newMoonPrev <= In.newMoonNext - In.sun[1]
  THEN In.newMoonPrev ELSE In.newMoonNext
InBeforeNewMoon ==
  IF Evening THEN In.sun[1] < InNearest ELSE In.sun[1] > InNearest
Returned == details # <<>>

\* C6: with both events found, lagTime < 0 and the sun event before the
\* nearest new moon, calculate returns qcode J.
C6_PrecedenceJ ==
  (Returned /\ BothFound /\ InLag < 0 /\ InBeforeNewMoon)
     => details[1].qcode = "J"

\* C7: with both events found and lagTime < 0 or beforeNewMoon, calculate
\* returns one of G, I, J; a letter A..F is returned only when lagTime >= 0
\* and not beforeNewMoon.
C7_ShortCircuitPriority ==
  (Returned /\ BothFound) =>
     /\ (InLag < 0 \/ InBeforeNewMoon) => details[1].qcode \in {"G", "I", "J"}
     /\ details[1].qcode \in {"A", "B", "C", "D", "E", "F"}
           => (InLag >= 0 /\ ~InBeforeNewMoon)

\* C8: when the Sun search or the Moon search finds no event, calculate
\* returns an object holding only qcode H (nothing of the geometric
\* criterion), and the worker reports the cell with qcode H and H's color.
C8_NoEventIsH ==
  ~BothFound =>
     /\ Returned => details[1] = [qcode |-> "H"]
     /\ posted # <<>> =>
           /\ Len(posted[1]) = 1
           /\ posted[1][1] = [id |-> "p", qcode |-> "H", color |-> "#3b82f6"]

C8_Witness ==
  /\ In.sun # NoEvent /\ In.moon = NoEvent
  /\ Returned /\ posted # <<>>

\* C9: with yallop enabled, both events found, lagTime >= 0 and not before
\* new moon, the value is (ARCV - poly)/10 and the qcode is A above 0.216,
\* B in (-0.014, 0.216], C in (-0.16, -0.014], D in (-0.232, -0.16],
\* E in (-0.293, -0.232], F at or below -0.293.
C9_YallopLadder ==
  (Returned /\ BothFound /\ UseYallop /\ InLag >= 0 /\ ~InBeforeNewMoon) =>
     LET v == details[1].value
         q == details[1].qcode
     IN  /\ v * 10 = (In.arcv - YallopPoly(In.wTopo)) * 10
         /\ q \in {"A", "B", "C", "D", "E", "F"}
         /\ q = "A" <=> v > 21600
         /\ q = "B" <=> (v <= 21600 /\ v > -1400)
         /\ q = "C" <=> (v <= -1400 /\ v > -16000)
         /\ q = "D" <=> (v <= -16000 /\ v > -23200)
         /\ q = "E" <=> (v <= -23200 /\ v > -29300)
         /\ q = "F" <=> v <= -29300

C9_Witness ==
  /\ Returned /\ BothFound /\ UseYallop /\ InLag >= 0 /\ ~InBeforeNewMoon
  /\ details[1].value = -1400 /\ details[1].qcode = "C"

\* C10: with yallop disabled the value is ARCV - poly, not divided by 10,
\* and the letter is A at or above 5.65, C in [2.0, 5.65), E in
\* [-0.96, 2.0), F below -0.96; never B or D.
C10_AltLadder ==
  (Returned /\ BothFound /\ ~UseYallop) =>
     LET v == details[1].value
         q == details[1].qcode
     IN  /\ v = (In.arcv - AltPoly(In.wTopo)) * 10
         /\ q \in {"A", "C", "E", "F"}
         /\ q = "A" <=> v >= 565000
         /\ q = "C" <=> (v < 565000 /\ v >= 200000)
         /\ q = "E" <=> (v < 200000 /\ v >= -96000)
         /\ q = "F" <=> v < -96000

C10_Witness ==
  /\ Returned /\ BothFound /\ ~UseYallop
  /\ details[1].value = 565000 /\ details[1].qcode = "A"

-----------------------------------------------------------------------------
(* The result cache (db.js)                                                *)

chunkSize == 500

Range(seq) == {seq[i] : i \in 1..Len(seq)}

Min(a, b) == IF a < b THEN a ELSE b

\* date.toISOString().split('T')[0]: the UTC calendar day of the instant
DateStrIdentity(instant) == instant

DateStr(instant) == instant \div TicksPerDay

\* SELECT * FROM results WHERE id IN (chunk) AND date = dateStr AND
\* elevation = elevation, each row mapped to {id, qcode, color}
QueryChunkAnyElevation(table, chunk, dateStr, elev) ==
  LET hit(r) == r.id \in Range(chunk) /\ r.date = dateStr
      sel    == SelectSeq(table, hit)
  IN  [i \in 1..Len(sel) |->
         [id |-> sel[i].id, qcode |-> sel[i].qcode, color |-> sel[i].color]]

QueryChunk(table, chunk, dateStr, elev) ==
  LET hit(r) == /\ r.id \in Range(chunk)
                /\ r.date = dateStr
                /\ r.elevation = elev
      sel    == SelectSeq(table, hit)
  IN  [i \in 1..Len(sel) |->
         [id |-> sel[i].id, qcode |-> sel[i].qcode, color |-> sel[i].color]]

\* the chunk loop stepping one id too far: the id after each chunk is in
\* no chunk
RECURSIVE ChunkLoopSkipping(_, _, _, _, _)
ChunkLoopSkipping(table, ids, dateStr, elev, i) ==
  IF i < Len(ids)
  THEN LET chunk == SubSeq(ids, i + 1, Min(i + chunkSize, Len(ids)))
       IN  QueryChunk(table, chunk, dateStr, elev)
             \o ChunkLoopSkipping(table, ids, dateStr, elev, i + chunkSize + 1)
  ELSE <<>>

\* the chunk loop: for (i = 0; i < ids.length; i += chunkSize)
RECURSIVE ChunkLoop(_, _, _, _, _)
ChunkLoop(table, ids, dateStr, elev, i) ==
  IF i < Len(ids)
  THEN LET chunk == SubSeq(ids, i + 1, Min(i + chunkSize, Len(ids)))
       IN  QueryChunk(table, chunk, dateStr, elev)
             \o ChunkLoop(table, ids, dateStr, elev, i + chunkSize)
  ELSE <<>>

GetCachedResults(table, ids, instant, elev) ==
  ChunkLoop(table, ids, DateStr(instant), elev, 0)

\* the id lists of the queries the loop issues: ids.slice(i, i + chunkSize)
\* for i = 0, chunkSize, 2 chunkSize, ... below ids.length
RECURSIVE ChunksFrom(_, _)
ChunksFrom(ids, i) ==
  IF i < Len(ids)
  THEN <<SubSeq(ids, i + 1, Min(i + chunkSize, Len(ids)))>>
         \o ChunksFrom(ids, i + chunkSize)
  ELSE <<>>

HasKey(table, id, dateStr, elev) ==
  \E i \in 1..Len(table) :
     /\ table[i].id = id
     /\ table[i].date = dateStr
     /\ table[i].elevation = elev

\* INSERT OR REPLACE in place of INSERT OR IGNORE
RECURSIVE InsertOrReplace(_, _, _, _)
InsertOrReplace(table, results, dateStr, elev) ==
  IF results = <<>> THEN table
  ELSE
    LET res  == Head(results)
        row  == [id |-> res.id, date |-> dateStr, elevation |-> elev,
                 qcode |-> res.qcode, color |-> res.color]
        same(r) == r.id = res.id /\ r.date = dateStr /\ r.elevation = elev
        kept(r) == ~same(r)
    IN  InsertOrReplace(Append(SelectSeq(table, kept), row),
                        Tail(results), dateStr, elev)

\* INSERT OR IGNORE INTO results VALUES (...), (...): a row whose primary
\* key (id, date, elevation) is already in the table is skipped
RECURSIVE InsertOrIgnore(_, _, _, _)
InsertOrIgnore(table, results, dateStr, elev) ==
  IF results = <<>> THEN table
  ELSE
    LET res  == Head(results)
        row  == [id |-> res.id, date |-> dateStr, elevation |-> elev,
                 qcode |-> res.qcode, color |-> res.color]
        next == IF HasKey(table, res.id, dateStr, elev)
                THEN table ELSE Append(table, row)
    IN  InsertOrIgnore(next, Tail(results), dateStr, elev)

CacheResultsReplacing(table, results, instant, elev) ==
  IF Len(results) = 0 THEN table
  ELSE InsertOrReplace(table, results, DateStr(instant), elev)

\* a cacheResults that writes nothing
CacheResultsDropped(table, results, instant, elev) == table

\* the table after cacheResults(results, date, elevation)
CacheResults(table, results, instant, elev) ==
  IF Len(results) = 0 THEN table
  ELSE InsertOrIgnore(table, results, DateStr(instant), elev)

-----------------------------------------------------------------------------
(* SpecCache: calls of the cache functions, one after another              *)

CacheIds == {"h1", "h2"}

\* (date, elevation) arguments: two instants of day 0, the first instant
\* of day 1, and a second elevation 0.4 m above the first (elevations in
\* decimetres)
KeyInputs ==
  {<<0, 1000>>, <<1, 1000>>, <<TicksPerDay, 1000>>, <<0, 1004>>}

ResultInputs ==
  {[id |-> h, qcode |-> q, color |-> GetCellColor(q)] :
      h \in CacheIds, q \in {"A", "E"}}

\* batches as the controller builds them: no id twice
BatchInputs ==
  {<<r>> : r \in ResultInputs}
    \cup {b \in ResultInputs \X ResultInputs :
             b[1].id = "h1" /\ b[2].id = "h2" /\ b[1].qcode # b[2].qcode}

IdListInputs == {<<>>, <<"h1">>, <<"h2">>, <<"h1", "h2">>, <<"h2", "h2">>}

CalcIdle == ephem = <<>> /\ opts = <<>> /\ details = <<>> /\ posted = <<>>

CacheInit ==
  /\ conn = FALSE
  /\ rows = <<>>
  /\ lookup = <<>>
  /\ insertLog = <<>>
  /\ CalcIdle /\ AppIdle /\ GeoIdle /\ InitIdle

\* initDB(): connect and CREATE TABLE IF NOT EXISTS results
InitDB ==
  /\ ~conn
  /\ conn' = TRUE
  /\ UNCHANGED <<geoVars, initVars, dbInit, calcVars, rows, harnessVars, appVars>>

\* await cacheResults(results, date, elevation)
CacheInsert ==
  \E results \in BatchInputs, k \in KeyInputs :
     /\ Len(insertLog) < MaxInserts
     /\ conn' = TRUE
     /\ rows' = CacheResults(rows, results, k[1], k[2])
     /\ insertLog' = Append(insertLog,
                       [results |-> results, date |-> k[1], elevation |-> k[2]])
     /\ lookup' = <<>>
     /\ UNCHANGED <<geoVars, initVars, dbInit, calcVars, appVars>>

\* await getCachedResults(ids, date, elevation)
CacheLookup ==
  \E ids \in IdListInputs, k \in KeyInputs :
     /\ conn' = TRUE
     /\ lookup' = << [ids |-> ids, date |-> k[1], elevation |-> k[2],
                      ret |-> GetCachedResults(rows, ids, k[1], k[2])] >>
     /\ UNCHANGED <<geoVars, initVars, dbInit, calcVars, rows, insertLog, appVars>>

CacheNext == InitDB \/ CacheInsert \/ CacheLookup

SpecCache == CacheInit /\ [][CacheNext]_vars

\* the payloads written under (id, day, elevation), in call order, read
\* off the history of cacheResults calls
RECURSIVE WritesOf(_, _, _, _)
WritesOf(log, id, day, elev) ==
  IF log = <<>> THEN <<>>
  ELSE
    LET call == Head(log)
        mine(r) == r.id = id
        here == IF call.date \div TicksPerDay = day /\ call.elevation = elev
                THEN SelectSeq(call.results, mine) ELSE <<>>
    IN  here \o WritesOf(Tail(log), id, day, elev)

\* the entries of a returned array that carry the given id
EntriesFor(ret, id) == SelectSeq(ret, LAMBDA r : r.id = id)

LookupDay == lookup[1].date \div TicksPerDay

\* C1: a lookup under the (cellId, date, elevation) of a result that was
\* inserted returns exactly that result, once; under a key never inserted
\* it returns no entry for the cell; it returns nothing for a cell not asked.
C1_CacheSoundness ==
  lookup # <<>> =>
     LET l == lookup[1] IN
     /\ \A i \in 1..Len(l.ret) : l.ret[i].id \in Range(l.ids)
     /\ \A id \in Range(l.ids) :
          LET w == WritesOf(insertLog, id, LookupDay, l.elevation) IN
          /\ Len(w) = 0 => EntriesFor(l.ret, id) = <<>>
          /\ Len(w) = 1 => EntriesFor(l.ret, id) = w

C1_Witness ==
  /\ lookup # <<>>
  /\ lookup[1].ids = <<"h1", "h2">>
  /\ Len(WritesOf(insertLog, "h1", LookupDay, lookup[1].elevation)) = 1
  /\ Len(WritesOf(insertLog, "h2", LookupDay, lookup[1].elevation)) = 0
  /\ Len(rows) > 1
  /\ Len(lookup[1].ret) = 1

\* C2: when a key was inserted with payload A and later with another payload
\* B, a lookup of the key returns A, and the table holds the single row A for
\* the key: the later insert changed nothing.
C2_FirstWriterWins ==
  \A id \in CacheIds, k \in KeyInputs :
     LET day == k[1] \div TicksPerDay
         w   == WritesOf(insertLog, id, day, k[2])
         held(r) == r.id = id /\ r.date = day /\ r.elevation = k[2]
         stored  == SelectSeq(rows, held)
     IN  Len(w) >= 2 =>
           /\ Len(stored) = 1
           /\ stored[1].qcode = w[1].qcode /\ stored[1].color = w[1].color
           /\ (lookup # <<>> /\ id \in Range(lookup[1].ids)
                 /\ LookupDay = day /\ lookup[1].elevation = k[2])
                => EntriesFor(lookup[1].ret, id) = <<w[1]>>

C2_Witness ==
  /\ lookup # <<>>
  /\ lookup[1].ids = <<"h1">>
  /\ LET w == WritesOf(insertLog, "h1", LookupDay, lookup[1].elevation)
     IN  Len(w) = 2 /\ w[1].qcode = "A" /\ w[2].qcode = "E"
  /\ lookup[1].ret = <<[id |-> "h1", qcode |-> "A", color |-> "#22c55e"]>>

-----------------------------------------------------------------------------
(* SpecChunk: getCachedResults over id lists around the chunk size.  Cell  *)
(* ids are numbers here.                                                   *)

\* list lengths: empty, one, just below, at and just above one chunk, two
\* chunks, and more than two chunks with a remainder
LengthInputs ==
  {0, 1, chunkSize - 1, chunkSize, chunkSize + 1, 2 * chunkSize,
   2 * chunkSize + 203}

\* the list of length n counting 1..m over and over: without a repeated id
\* (m above every length), with each id again one chunk later, and with a
\* single id throughout
CycleInputs == {3 * chunkSize, chunkSize, 1}

IdCycle(n, m) == [i \in 1..n |-> ((i - 1) % m) + 1]

\* ids that may be cached: the first one and those either side of the
\* first chunk boundary
CachedIdInputs == {1, chunkSize, chunkSize + 1}

RECURSIVE SortedIds(_)
SortedIds(S) ==
  IF S = {} THEN <<>>
  ELSE LET m == CHOOSE x \in S : \A y \in S : x <= y
       IN  <<m>> \o SortedIds(S \ {m})

ChunkRow(id, day, elev) ==
  [id |-> id, date |-> day, elevation |-> elev, qcode |-> "A",
   color |-> GetCellColor("A")]

\* tables: the rows of any set of those ids under (day 0, 100 m), after
\* rows of the first id under another day and another elevation
ChunkTables ==
  {<<ChunkRow(1, 1, 1000), ChunkRow(1, 0, 1004)>>
     \o [i \in 1..Cardinality(S) |-> ChunkRow(SortedIds(S)[i], 0, 1000)] :
       S \in SUBSET CachedIdInputs}

ChunkInit ==
  /\ conn = TRUE
  /\ rows \in ChunkTables
  /\ lookup = <<>>
  /\ insertLog = <<>>
  /\ CalcIdle /\ AppIdle /\ GeoIdle /\ InitIdle

\* await getCachedResults(ids, date, elevation), with the queries it issues
ChunkLookup ==
  \E n \in LengthInputs, m \in CycleInputs :
     LET ids == IdCycle(n, m) IN
     /\ lookup' = << [ids |-> ids, date |-> 0, elevation |-> 1000,
                      queries |-> ChunksFrom(ids, 0),
                      ret |-> GetCachedResults(rows, ids, 0, 1000)] >>
     /\ UNCHANGED <<geoVars, initVars, dbInit, calcVars, cacheVars, insertLog, appVars>>

ChunkNext == ChunkLookup

SpecChunk == ChunkInit /\ [][ChunkNext]_vars

\* the ids cached under the key of the lookup
CachedUnderKey ==
  {rows[i].id : i \in {j \in 1..Len(rows) :
                         /\ rows[j].date = DateStr(lookup[1].date)
                         /\ rows[j].elevation = lookup[1].elevation}}

\* how often the id occurs in the list
Occurrences(ids, id) == Cardinality({i \in 1..Len(ids) : ids[i] = id})

\* the number of queries whose id list holds the id
QueriesWith(queries, id) ==
  Cardinality({q \in 1..Len(queries) : id \in Range(queries[q])})

RECURSIVE Flatten(_)
Flatten(seqs) == IF seqs = <<>> THEN <<>> ELSE Head(seqs) \o Flatten(Tail(seqs))

\* C22 (as claimed): the lookup returns the cached entries of the listed
\* ids, each once per occurrence of its id in the list, and nothing else;
\* the queries split the list into chunks of at most chunkSize ids, every
\* id in exactly one; an empty list issues no query and returns nothing.
C22_ChunkedEqualsUnchunked ==
  lookup # <<>> =>
     LET l == lookup[1] IN
     /\ \A i \in 1..Len(l.ret) : l.ret[i].id \in Range(l.ids)
     /\ \A id \in Range(l.ids) :
          Len(EntriesFor(l.ret, id)) =
             IF id \in CachedUnderKey THEN Occurrences(l.ids, id) ELSE 0
     /\ Flatten(l.queries) = l.ids
     /\ \A q \in 1..Len(l.queries) :
          Len(l.queries[q]) >= 1 /\ Len(l.queries[q]) <= chunkSize
     /\ l.ids = <<>> => (l.queries = <<>> /\ l.ret = <<>>)

\* C22 (amended): the same, each cached entry once per query whose id list
\* holds its id, which is once when no id is listed twice.
C22_ChunkedOncePerChunk ==
  lookup # <<>> =>
     LET l == lookup[1] IN
     /\ \A i \in 1..Len(l.ret) : l.ret[i].id \in Range(l.ids)
     /\ \A id \in Range(l.ids) :
          Len(EntriesFor(l.ret, id)) =
             IF id \in CachedUnderKey THEN QueriesWith(l.queries, id) ELSE 0
     /\ (\A id \in Range(l.ids) : Occurrences(l.ids, id) = 1) =>
          \A id \in Range(l.ids) :
             Len(EntriesFor(l.ret, id)) = IF id \in CachedUnderKey THEN 1 ELSE 0
     /\ Flatten(l.queries) = l.ids
     /\ \A q \in 1..Len(l.queries) :
          Len(l.queries[q]) >= 1 /\ Len(l.queries[q]) <= chunkSize
     /\ l.ids = <<>> => (l.queries = <<>> /\ l.ret = <<>>)

\* one id more than a chunk, no id twice, and the ids either side of the
\* chunk boundary both cached and returned
C22_Witness ==
  /\ lookup # <<>>
  /\ Len(lookup[1].ids) = chunkSize + 1
  /\ Occurrences(lookup[1].ids, 1) = 1
  /\ Len(lookup[1].queries) = 2
  /\ Len(EntriesFor(lookup[1].ret, chunkSize)) = 1
  /\ Len(EntriesFor(lookup[1].ret, chunkSize + 1)) = 1

-----------------------------------------------------------------------------
(* SpecInit: initDB await by await, under calls of initDB,                 *)
(* getCachedResults and cacheResults made at any moment.  Each AsyncDuckDB *)
(* is a database of its own with its own results table.                    *)

MaxCalls == 3      \* calls of db.js functions in one behaviour

\* the arguments of the calls: one cell under one key
InitIds == <<"h1">>
InitResults == <<[id |-> "h1", qcode |-> "A", color |-> GetCellColor("A")]>>

\* a call standing at await duckdb.selectBundle (line 10)
AtSelectBundle(op) ==
  [op |-> op, pc |-> "selectBundle", own |-> 0, target |-> 0, early |-> FALSE,
   ret |-> <<>>]

\* a call that has returned or raised
Ended(op, pc, ret) ==
  [op |-> op, pc |-> pc, own |-> 0, target |-> 0, early |-> FALSE, ret |-> ret]

\* return { db, conn } (lines 7 and 33): the module variables as they are
Handles(d, c) == <<[db |-> d, conn |-> c]>>

InitInit ==
  /\ CalcIdle /\ CacheIdle /\ AppIdle /\ GeoIdle
  /\ db = 0 /\ connOf = 0 /\ instances = <<>> /\ calls = <<>>

\* the rest of getCachedResults or cacheResults from line 38 / 67 on, conn
\* being connected to database k: the query runs on that database
RunQuery(i, op, k) ==
  IF op = "getCachedResults"
  THEN /\ calls' = [calls EXCEPT ![i] =
            Ended(op, "done",
                  <<GetCachedResults(instances[k].rows, InitIds, 0, 1000)>>)]
       /\ UNCHANGED <<instances, rows>>
  ELSE /\ calls' = [calls EXCEPT ![i] = Ended(op, "done", <<>>)]
       /\ instances' = [instances EXCEPT ![k].rows =
                           CacheResults(@, InitResults, 0, 1000)]
       /\ rows' = CacheResults(instances[k].rows, InitResults, 0, 1000)

\* initDB(): with db assigned it returns the handles at once (line 7),
\* else it goes to its first await
CallInitDB ==
  /\ Len(calls) < MaxCalls
  /\ calls' = Append(calls, IF db # 0
                            THEN Ended("initDB", "done", Handles(db, connOf))
                            ELSE AtSelectBundle("initDB"))
  /\ UNCHANGED <<geoVars, dbInit, calcVars, cacheVars, harnessVars, appVars,
                 db, connOf, instances>>

\* getCachedResults(ids, date, elevation) or cacheResults(results, date,
\* elevation): with conn set the query runs; with conn null the call
\* awaits initDB(), which returns at once when db is assigned, and the
\* query is then made on the null conn (TypeError)
CallQuery ==
  \E op \in {"getCachedResults", "cacheResults"} :
     /\ Len(calls) < MaxCalls
     /\ IF connOf # 0
        THEN IF op = "getCachedResults"
                THEN /\ calls' = Append(calls, Ended(op, "done",
                          <<GetCachedResults(instances[connOf].rows, InitIds,
                                             0, 1000)>>))
                     /\ UNCHANGED <<instances, rows>>
                ELSE /\ calls' = Append(calls, Ended(op, "done", <<>>))
                     /\ instances' = [instances EXCEPT ![connOf].rows =
                                        CacheResults(@, InitResults, 0, 1000)]
                     /\ rows' = CacheResults(instances[connOf].rows,
                                             InitResults, 0, 1000)
        ELSE /\ calls' = Append(calls, IF db # 0
                                       THEN Ended(op, "nullConn", <<>>)
                                       ELSE AtSelectBundle(op))
             /\ UNCHANGED <<instances, rows>>
     /\ UNCHANGED <<geoVars, dbInit, calcVars, conn, harnessVars, appVars,
                    db, connOf>>

\* selectBundle resolves: the worker and the AsyncDuckDB are created, db is
\* assigned (line 18) and db.instantiate is awaited (line 19)
BundleSelected ==
  \E i \in 1..Len(calls) :
     /\ calls[i].pc = "selectBundle"
     /\ instances' = Append(instances, [ready |-> FALSE, rows |-> <<>>])
     /\ db' = Len(instances) + 1
     /\ calls' = [calls EXCEPT ![i].pc = "instantiate",
                               ![i].own = Len(instances) + 1]
     /\ UNCHANGED <<geoVars, dbInit, calcVars, cacheVars, harnessVars, appVars,
                    connOf>>

\* instantiate resolves: db.connect() is called on the db of this moment
\* and awaited (line 20)
Instantiated ==
  \E i \in 1..Len(calls) :
     /\ calls[i].pc = "instantiate"
     /\ instances' = [instances EXCEPT ![calls[i].own].ready = TRUE]
     /\ calls' = [calls EXCEPT ![i].pc = "connect",
                               ![i].target = db,
                               ![i].early = (db # calls[i].own
                                               /\ ~instances[db].ready)]
     /\ UNCHANGED <<geoVars, dbInit, calcVars, cacheVars, harnessVars, appVars,
                    db, connOf>>

\* connect resolves: conn is assigned (line 20) and the CREATE TABLE query
\* is awaited (lines 22-31)
Connected ==
  \E i \in 1..Len(calls) :
     /\ calls[i].pc = "connect"
     /\ connOf' = calls[i].target
     /\ conn' = TRUE
     /\ rows' = instances[calls[i].target].rows
     /\ calls' = [calls EXCEPT ![i].pc = "create"]
     /\ UNCHANGED <<geoVars, dbInit, calcVars, harnessVars, appVars, db,
                    instances>>

\* connect asked of a database that was not instantiated yet may reject
ConnectRejected ==
  \E i \in 1..Len(calls) :
     /\ calls[i].pc = "connect"
     /\ calls[i].early
     /\ calls' = [calls EXCEPT ![i].pc = "rejected"]
     /\ UNCHANGED <<geoVars, dbInit, calcVars, cacheVars, harnessVars, appVars,
                    db, connOf, instances>>

\* CREATE TABLE IF NOT EXISTS resolves: initDB returns the handles (line
\* 33); a getCachedResults or cacheResults that awaited it goes on
TableCreated ==
  \E i \in 1..Len(calls) :
     /\ calls[i].pc = "create"
     /\ IF calls[i].op = "initDB"
        THEN /\ calls' = [calls EXCEPT ![i] =
                            Ended("initDB", "done", Handles(db, connOf))]
             /\ UNCHANGED <<instances, rows>>
        ELSE RunQuery(i, calls[i].op, connOf)
     /\ UNCHANGED <<geoVars, dbInit, calcVars, conn, harnessVars, appVars, db,
                    connOf>>

InitNext ==
  \/ CallInitDB
  \/ CallQuery
  \/ BundleSelected
  \/ Instantiated
  \/ Connected
  \/ ConnectRejected
  \/ TableCreated

SpecInit == InitInit /\ [][InitNext]_vars

\* C25: at most one AsyncDuckDB (with its worker) is ever created, and all
\* initDB calls that have returned returned the same db and connection.
C25_SingletonHandle ==
  /\ Len(instances) <= 1
  /\ \A i, j \in 1..Len(calls) :
        ( /\ calls[i].op = "initDB" /\ calls[i].pc = "done"
          /\ calls[j].op = "initDB" /\ calls[j].pc = "done" )
        => calls[i].ret = calls[j].ret

\* C26: no getCachedResults or cacheResults call has made its query on a
\* null conn.
C26_CallsWaitForInit ==
  \A i \in 1..Len(calls) : calls[i].pc # "nullConn"

\* an elevation in decimetres rounded to whole metres
RoundMetres(elev) == (elev + 5) \div 10

\* C21: the elevation of the cache key is rounded to whole metres: a lookup
\* finds what was inserted for the cell and day under any elevation that
\* rounds to the same metre.
C21_ElevationQuantized ==
  lookup # <<>> =>
     LET l == lookup[1] IN
     \A id \in Range(l.ids) :
        (\E i \in 1..Len(insertLog) :
            /\ DateStr(insertLog[i].date) = LookupDay
            /\ RoundMetres(insertLog[i].elevation) = RoundMetres(l.elevation)
            /\ \E j \in 1..Len(insertLog[i].results) :
                  insertLog[i].results[j].id = id)
        => EntriesFor(l.ret, id) # <<>>

-----------------------------------------------------------------------------
(* SpecGeo: getAntimeridianSafeFeature over bounded cell boundaries        *)

MaxVerts == 3      \* a boundary has 3..MaxVerts vertices

\* longitudes either side of the antimeridian, around the prime meridian
\* and a third of the circle apart (the outline of a cell around a pole)
LngInputs == {-179, -120, 0, 10, 20, 120, 179}
LatInputs == {0, 85}

BoundaryInputs ==
  UNION {[1..n -> LatInputs \X LngInputs] : n \in 3..MaxVerts}

GeoInit ==
  /\ boundary \in BoundaryInputs
  /\ feature = <<>>
  /\ CalcIdle /\ CacheIdle /\ AppIdle /\ InitIdle

\* getAntimeridianSafeFeature(h3Id, color) for the cell with this boundary
CallFeature ==
  /\ feature = <<>>
  /\ feature' = <<GetAntimeridianSafeFeature(boundary, "#22c55e")>>
  /\ UNCHANGED <<boundary, initVars, dbInit, calcVars, cacheVars, harnessVars, appVars>>

GeoNext == CallFeature

SpecGeo == GeoInit /\ [][GeoNext]_vars

\* the rings of the emitted geometry, one per part
Rings ==
  LET g == feature[1].geometry
  IN  IF g.type = "Polygon" THEN g.coordinates
      ELSE [p \in 1..Len(g.coordinates) |-> g.coordinates[p][1]]

\* max longitude minus min longitude of a ring
LngSpan(ring) ==
  LET xs == {ring[i][1] : i \in 1..Len(ring)}
  IN  (CHOOSE a \in xs : \A b \in xs : a >= b)
        - (CHOOSE a \in xs : \A b \in xs : a <= b)

\* two cyclically consecutive boundary longitudes more than 180 apart
WrapInBoundary ==
  LET n == Len(boundary)
  IN  \E i \in 1..n :
         LET j == IF i = n THEN 1 ELSE i + 1
         IN  boundary[i][2] - boundary[j][2] > 180
               \/ boundary[j][2] - boundary[i][2] > 180

\* C11: for every boundary in which a wrap is detected the feature is a
\* MultiPolygon of two parts and no part spans more than 180 degrees of
\* longitude.
C11_PartsWithinHalfCircle ==
  (feature # <<>> /\ WrapInBoundary) =>
     /\ feature[1].geometry.type = "MultiPolygon"
     /\ Len(Rings) = 2
     /\ \A p \in 1..Len(Rings) : LngSpan(Rings[p]) <= 180

\* C12: a single Polygon is emitted iff no two cyclically consecutive
\* longitudes differ by more than 180; otherwise exactly two parts, the
\* left with every negative longitude shifted by +360 and the right with
\* every positive longitude shifted by -360.  Every ring is in (lng, lat)
\* order, has one vertex more than the boundary, ends on its first vertex
\* and keeps the latitudes.
C12_WrapAndClosure ==
  feature # <<>> =>
     LET g == feature[1].geometry
         n == Len(boundary)
     IN  /\ g.type \in {"Polygon", "MultiPolygon"}
         /\ g.type = "Polygon" <=> ~WrapInBoundary
         /\ g.type = "Polygon" =>
              /\ Len(g.coordinates) = 1
              /\ \A i \in 1..n :
                    Rings[1][i] = <<boundary[i][2], boundary[i][1]>>
         /\ g.type = "MultiPolygon" =>
              /\ Len(g.coordinates) = 2
              /\ \A p \in 1..2 : Len(g.coordinates[p]) = 1
              /\ \A i \in 1..n :
                    LET lng == boundary[i][2]
                    IN  /\ Rings[1][i][1] = IF lng < 0 THEN lng + 360 ELSE lng
                        /\ Rings[2][i][1] = IF lng > 0 THEN lng - 360 ELSE lng
         /\ \A p \in 1..Len(Rings) :
              /\ Len(Rings[p]) = n + 1
              /\ Rings[p][n + 1] = Rings[p][1]
              /\ \A i \in 1..n : Rings[p][i][2] = boundary[i][1]

\* a wrap between the last vertex and the first only, with a longitude 0
\* that neither copy shifts
C12_Witness ==
  /\ feature # <<>>
  /\ feature[1].geometry.type = "MultiPolygon"
  /\ \A i \in 1..(Len(boundary) - 1) :
        Abs(boundary[i][2] - boundary[i + 1][2]) <= 180
  /\ \E i \in 1..Len(boundary) : boundary[i][2] = 0

-----------------------------------------------------------------------------
(* The grid controller (App, part_001)                                     *)

Auto == <<>>       \* manualRes === null

\* the ladder with the upper edge of a band taken into the next band
ResolutionForInclusive(manual, z) ==
  IF manual # Auto THEN manual[1]
  ELSE IF z >= 80 THEN 5
  ELSE IF z >= 60 THEN 4
  ELSE IF z >= 45 THEN 3
  ELSE IF z > 30 THEN 2
  ELSE 1

\* the resolution a grid update uses; zoom in tenths
ResolutionFor(manual, z) ==
  IF manual # Auto THEN manual[1]
  ELSE IF z > 80 THEN 5
  ELSE IF z > 60 THEN 4
  ELSE IF z > 45 THEN 3
  ELSE IF z > 30 THEN 2
  ELSE 1

RECURSIVE SortedSeq(_)
SortedSeq(S) ==
  IF S = {} THEN <<>>
  ELSE LET m == CHOOSE x \in S : \A y \in S : x <= y
       IN  <<m>> \o SortedSeq(S \ {m})

\* h3.polygonToCells(polygon, res): the cells of resolution res covering
\* the viewport, each once
PolygonToCells(v, res) ==
  LET pos == SortedSeq(v) IN [i \in 1..Len(pos) |-> <<res, pos[i]>>]

\* Map.set(key, val)
MapSet(map, key, val) ==
  [k \in DOMAIN map \cup {key} |-> IF k = key THEN val ELSE map[k]]

\* results.forEach(res => map.set(res.id, val(res)))
RECURSIVE SetEach(_, _, _)
SetEach(map, results, tag) ==
  IF results = <<>> THEN map
  ELSE SetEach(MapSet(map, Head(results).id,
                      IF tag = <<>> THEN Head(results) ELSE tag[1]),
               Tail(results), tag)

\* history flags of an item in flight: the epoch (date, elevation or
\* resolution) changed / the working set was cleared since it started;
\* move: the update was called by onMoveEnd
Mark(items, stale, wiped) ==
  [i \in 1..Len(items) |->
     [items[i] EXCEPT !.h = [@ EXCEPT !.stale = @ \/ stale,
                                      !.wiped = @ \/ wiped]]]

\* The refs and queues a render's effects work on, as one record.
Refs ==
  [ disp |-> displayedResults, tags |-> mergedFor, cur |-> currentResolution,
    q |-> dbQueue, inb |-> inbox, outb |-> outbox, emit |-> emitted ]

\* a clear that leaves the working set as it is
ClearNothing(st, stale) ==
  [st EXCEPT !.q = Mark(@, stale, TRUE),
             !.inb = Mark(@, stale, TRUE),
             !.outb = Mark(@, stale, TRUE)]

\* displayedResults.current.clear()
Clear(st, stale) ==
  [st EXCEPT !.disp = <<>>, !.tags = <<>>,
             !.q = Mark(@, stale, TRUE),
             !.inb = Mark(@, stale, TRUE),
             !.outb = Mark(@, stale, TRUE)]

\* workerRef.current.terminate(): what was posted either way is gone
Terminate(st) == [st EXCEPT !.inb = <<>>, !.outb = <<>>]

\* updateH3Grid querying the cache under the following day
GridStartWrongDay(st, d, e, m, loaded, ready, z, v, table, connected) ==
  IF ~(loaded /\ ready) THEN st
  ELSE
    LET res   == ResolutionFor(m, z)
        st1   == IF st.cur # res THEN [Clear(st, TRUE) EXCEPT !.cur = res]
                 ELSE st
        hexes == PolygonToCells(v, res)
    IN  IF hexes = <<>> THEN [st1 EXCEPT !.emit = <<st1.disp>>]
        ELSE IF ~connected THEN st1    \* conn.query on null throws; caught at 296
        ELSE [st1 EXCEPT !.q = Append(@,
                [ kind |-> "lookup", hexes |-> hexes, date |-> d,
                  elevation |-> e,
                  cached |-> GetCachedResults(table, hexes, d + TicksPerDay, e),
                  h |-> [ req |-> hexes,
                          precached |-> {c \in Range(hexes) :
                                           HasKey(table, c, d \div TicksPerDay, e)},
                          stale |-> FALSE, wiped |-> FALSE,
                          move |-> FALSE ] ])]

\* updateH3Grid clearing the working set on every call
GridStartClearing(st, d, e, m, loaded, ready, z, v, table, connected) ==
  IF ~(loaded /\ ready) THEN st
  ELSE
    LET res   == ResolutionFor(m, z)
        st1   == [Clear(st, st.cur # res) EXCEPT !.cur = res]
        hexes == PolygonToCells(v, res)
    IN  IF hexes = <<>> THEN [st1 EXCEPT !.emit = <<st1.disp>>]
        ELSE IF ~connected THEN st1
        ELSE [st1 EXCEPT !.q = Append(@,
                [ kind |-> "lookup", hexes |-> hexes, date |-> d,
                  elevation |-> e,
                  cached |-> GetCachedResults(table, hexes, d, e),
                  h |-> [ req |-> hexes,
                          precached |-> {c \in Range(hexes) :
                                           HasKey(table, c, d \div TicksPerDay, e)},
                          stale |-> FALSE, wiped |-> FALSE,
                          move |-> FALSE ] ])]

\* updateH3Grid rendering nothing when no cell covers the viewport
GridStartBlank(st, d, e, m, loaded, ready, z, v, table, connected) ==
  IF ~(loaded /\ ready) THEN st
  ELSE
    LET res   == ResolutionFor(m, z)
        st1   == IF st.cur # res THEN [Clear(st, TRUE) EXCEPT !.cur = res]
                 ELSE st
        hexes == PolygonToCells(v, res)
    IN  IF hexes = <<>> THEN [st1 EXCEPT !.emit = << <<>> >>]
        ELSE IF ~connected THEN st1
        ELSE [st1 EXCEPT !.q = Append(@,
                [ kind |-> "lookup", hexes |-> hexes, date |-> d,
                  elevation |-> e,
                  cached |-> GetCachedResults(table, hexes, d, e),
                  h |-> [ req |-> hexes,
                          precached |-> {c \in Range(hexes) :
                                           HasKey(table, c, d \div TicksPerDay, e)},
                          stale |-> FALSE, wiped |-> FALSE,
                          move |-> FALSE ] ])]

\* updateH3Grid up to its await: the guard, the resolution, the clear on a
\* resolution switch, the covering cells and the cache query.  With no
\* cell there is no query and the rest of the function runs at once.
\* connected: db.js has a connection (initDB returns at once when db is assigned).
GridStart(st, d, e, m, loaded, ready, z, v, table, connected) ==
  IF ~(loaded /\ ready) THEN st
  ELSE
    LET res   == ResolutionFor(m, z)
        st1   == IF st.cur # res THEN [Clear(st, TRUE) EXCEPT !.cur = res]
                 ELSE st
        hexes == PolygonToCells(v, res)
    IN  IF hexes = <<>> THEN [st1 EXCEPT !.emit = <<st1.disp>>]
        ELSE IF ~connected THEN st1    \* conn.query on null throws; caught at 296
        ELSE [st1 EXCEPT !.q = Append(@,
                [ kind |-> "lookup", hexes |-> hexes, date |-> d,
                  elevation |-> e,
                  cached |-> GetCachedResults(table, hexes, d, e),
                  h |-> [ req |-> hexes,
                          precached |-> {c \in Range(hexes) :
                                           HasKey(table, c, d \div TicksPerDay, e)},
                          stale |-> FALSE, wiped |-> FALSE,
                          move |-> FALSE ] ])]

\* the effect on [date, elevation, mapLoaded, dbReady, updateH3Grid]
DateElevationEffect(st, d, e, m, loaded, ready, z, v, table, connected, stale) ==
  IF loaded /\ ready
  THEN GridStart(Clear(st, stale), d, e, m, loaded, ready, z, v, table,
                 connected)
  ELSE st

\* the effect on [mapLoaded, dbReady, locateUser]
ReadyEffect(st, d, e, m, loaded, ready, z, v, table, connected) ==
  IF loaded /\ ready
  THEN GridStart(st, d, e, m, loaded, ready, z, v, table,
                 connected)
  ELSE st

\* the updates queued after the first n were called by onMoveEnd
ByMoveEnd(st, n) ==
  [st EXCEPT !.q = [i \in 1..Len(@) |->
                      IF i > n THEN [@[i] EXCEPT !.h.move = TRUE] ELSE @[i]]]

\* the assignment of a Refs record to the next state
Commit(st) ==
  /\ displayedResults' = st.disp
  /\ mergedFor' = st.tags
  /\ currentResolution' = st.cur
  /\ dbQueue' = st.q
  /\ inbox' = st.inb
  /\ outbox' = st.outb
  /\ emitted' = st.emit

DayInputs == {0, 1}                  \* days the date picker is set to
ElevationInputs == {1000, 1004}      \* 100 m and 100.4 m
ManualInputs == {Auto, <<1>>, <<2>>}
ZoomInputs == {20, 40}
ViewInputs == {{}, {1}, {1, 2}}

AppInit ==
  /\ CalcIdle /\ CacheIdle /\ GeoIdle /\ InitIdle
  /\ dbInit = "pending"
  /\ date = 1 /\ elevation = 1000 /\ manualRes = Auto
  /\ mapLoaded = FALSE /\ dbReady = FALSE /\ recalculating = FALSE
  /\ zoom = 20 /\ view = {1}
  /\ displayedResults = <<>> /\ currentResolution = 1
  /\ onmessage = [date |-> 1, elevation |-> 1000, mapLoaded |-> FALSE]
  /\ inbox = <<>> /\ outbox = <<>> /\ dbQueue = <<>> /\ emitted = <<>>
  /\ events = 0
  /\ mergedFor = <<>> /\ lastDispatch = <<>> /\ lastDone = <<>>

\* initDB() called again by the worker effect (line 184).  With db
\* assigned it returns at once (line 7), and its then() sets dbReady; with
\* db null after a rejection the initialisation starts over.  A call made
\* while the first one is running is not told apart from it.
InitAgain(init, ready) ==
  CASE init = "early" -> "pending"
    [] init = "late" /\ ~ready -> "resolving"
    [] OTHER -> init

\* map.on('load'): setMapLoaded(true); the worker effect, the ready effect
\* and the date/elevation effect run
MapLoad ==
  /\ ~mapLoaded
  /\ mapLoaded' = TRUE
  /\ onmessage' = [date |-> date, elevation |-> elevation, mapLoaded |-> TRUE]
  /\ dbInit' = InitAgain(dbInit, dbReady)
  /\ LET st1 == ReadyEffect(Terminate(Refs), date, elevation, manualRes, TRUE,
                            dbReady, zoom, view, rows, conn)
     IN  Commit(DateElevationEffect(st1, date, elevation, manualRes, TRUE,
                                    dbReady, zoom, view, rows, conn, FALSE))
  /\ UNCHANGED <<geoVars, initVars,
                 calcVars, cacheVars, harnessVars, date, elevation, manualRes,
                 dbReady, zoom, view, recalculating, events, lastDispatch,
                 lastDone>>

\* initDB().then(() => setDbReady(true)); the ready effect and the
\* date/elevation effect run
DbReady ==
  /\ dbInit = "pending"
  /\ dbInit' = "ready"
  /\ conn' = TRUE
  /\ dbReady' = TRUE
  /\ LET st1 == ReadyEffect(Refs, date, elevation, manualRes, mapLoaded, TRUE,
                            zoom, view, rows, TRUE)
     IN  Commit(DateElevationEffect(st1, date, elevation, manualRes, mapLoaded,
                                    TRUE, zoom, view, rows, TRUE, FALSE))
  /\ UNCHANGED <<geoVars, initVars,
                 calcVars, rows, harnessVars, date, elevation, manualRes,
                 mapLoaded, zoom, view, recalculating, onmessage, events,
                 lastDispatch, lastDone>>

\* initDB() rejects: before db is assigned (bundle selection, lines 9-16)
\* or after (instantiate or connect, lines 19-20, conn still null).  Nothing catches the rejection and then() does not run.
InitFail ==
  /\ dbInit = "pending"
  /\ dbInit' \in {"early", "late"}
  /\ UNCHANGED <<geoVars, initVars, calcVars, cacheVars, harnessVars, appVars>>

\* a later initDB() found db assigned and resolved: setDbReady(true) with
\* no connection; the ready effect and the date/elevation effect run
ResolveBroken ==
  /\ dbInit = "resolving"
  /\ dbInit' = "late"
  /\ dbReady' = TRUE
  /\ LET st1 == ReadyEffect(Refs, date, elevation, manualRes, mapLoaded, TRUE,
                            zoom, view, rows, conn)
     IN  Commit(DateElevationEffect(st1, date, elevation, manualRes, mapLoaded,
                                    TRUE, zoom, view, rows, conn, FALSE))
  /\ UNCHANGED <<geoVars, initVars, calcVars, cacheVars, harnessVars, date, elevation,
                 manualRes, mapLoaded, zoom, view, recalculating, onmessage,
                 events, lastDispatch, lastDone>>

\* setDate(next): handleDateChange(+-1) or the date input.  The Date is a
\* new object also when the instant is the same, so the effects always run.
DateChange ==
  \E next \in {date - TicksPerDay, date + TicksPerDay}
                \cup {day * TicksPerDay : day \in DayInputs} :
     /\ events < MaxEvents
     /\ events' = events + 1
     /\ date' = next
     /\ onmessage' = [date |-> next, elevation |-> elevation,
                      mapLoaded |-> mapLoaded]
     /\ dbInit' = InitAgain(dbInit, dbReady)
     /\ Commit(DateElevationEffect(Terminate(Refs), next, elevation, manualRes,
                                   mapLoaded, dbReady, zoom, view, rows, conn,
                                   next # date))
     /\ UNCHANGED <<geoVars, initVars,
                    calcVars, cacheVars, harnessVars, elevation, manualRes,
                    mapLoaded, dbReady, zoom, view, recalculating,
                    lastDispatch, lastDone>>

\* setElevation(e) with another value: the elevation input or the
\* elevation lookup of a clicked point
ElevationChange ==
  \E e \in ElevationInputs \ {elevation} :
     /\ events < MaxEvents
     /\ events' = events + 1
     /\ elevation' = e
     /\ onmessage' = [date |-> date, elevation |-> e, mapLoaded |-> mapLoaded]
     /\ dbInit' = InitAgain(dbInit, dbReady)
     /\ Commit(DateElevationEffect(Terminate(Refs), date, e, manualRes,
                                   mapLoaded, dbReady, zoom, view, rows, conn,
                                   TRUE))
     /\ UNCHANGED <<geoVars, initVars,
                    calcVars, cacheVars, harnessVars, date, manualRes,
                    mapLoaded, dbReady, zoom, view, recalculating,
                    lastDispatch, lastDone>>

\* setManualRes(r) with another value: updateH3Grid is a new callback, so
\* the date/elevation effect runs
ManualResChange ==
  \E m \in ManualInputs \ {manualRes} :
     /\ events < MaxEvents
     /\ events' = events + 1
     /\ manualRes' = m
     /\ Commit(DateElevationEffect(Refs, date, elevation, m, mapLoaded,
                                   dbReady, zoom, view, rows, conn, FALSE))
     /\ UNCHANGED <<geoVars, initVars, dbInit,
                    calcVars, cacheVars, harnessVars, date, elevation,
                    mapLoaded, dbReady, zoom, view, recalculating, onmessage,
                    lastDispatch, lastDone>>

\* the map's moveend: onMoveEnd calls updateH3Grid
MoveEnd ==
  \E z \in ZoomInputs, v \in ViewInputs :
     /\ mapLoaded
     /\ events < MaxEvents
     /\ events' = events + 1
     /\ zoom' = z
     /\ view' = v
     /\ Commit(ByMoveEnd(GridStart(Refs, date, elevation, manualRes, mapLoaded,
                                   dbReady, z, v, rows, conn),
                         Len(dbQueue)))
     /\ UNCHANGED <<geoVars, initVars, dbInit,
                    calcVars, cacheVars, harnessVars, date, elevation,
                    manualRes, mapLoaded, dbReady, recalculating, onmessage,
                    lastDispatch, lastDone>>

\* updateH3Grid after its await: the split into hits and misses, the merge
\* of the hits, and the batch posted to workerRef.current (or the render)
GridResume ==
  /\ dbQueue # <<>>
  /\ Head(dbQueue).kind = "lookup"
  /\ LET c         == Head(dbQueue)
         cachedIds == {c.cached[i].id : i \in 1..Len(c.cached)}
         missing   == SelectSeq(c.hexes, LAMBDA x : x \notin cachedIds)
         shown     == SetEach(displayedResults, c.cached, <<>>)
         points    == [i \in 1..Len(missing) |->
                         [id |-> missing[i],
                          lat |-> CellToLatLng(missing[i])[1],
                          lng |-> CellToLatLng(missing[i])[2]]]
     IN  /\ dbQueue' = Tail(dbQueue)
         /\ displayedResults' = shown
         /\ mergedFor' = SetEach(mergedFor, c.cached,
                                 <<[date |-> c.date, elevation |-> c.elevation]>>)
         /\ IF Len(missing) > 0
            THEN /\ recalculating' = TRUE
                 /\ inbox' = Append(inbox,
                       [ points |-> points, elevation |-> c.elevation,
                         date |-> c.date, options |-> [yallop |-> TRUE],
                         h |-> [ req |-> c.hexes,
                                 for |-> [date |-> c.date,
                                          elevation |-> c.elevation],
                                 stale |-> c.h.stale, wiped |-> FALSE,
                                 move |-> c.h.move ] ])
                 /\ UNCHANGED emitted
            ELSE /\ emitted' = <<shown>>
                 /\ UNCHANGED <<recalculating, inbox>>
         /\ lastDispatch' =
              << [ req |-> c.hexes, date |-> c.date, elevation |-> c.elevation,
                   precached |-> c.h.precached,
                   hits |-> [i \in 1..Len(c.cached) |-> c.cached[i].id],
                   submitted |-> missing ] >>
  /\ UNCHANGED <<geoVars, initVars, dbInit, calcVars, cacheVars, harnessVars, stateVars,
                 currentResolution, onmessage, outbox, events, lastDone>>

\* the worker computes the oldest batch posted to it and posts the
\* results, or raises on one of its points and posts nothing
WorkerStep ==
  /\ inbox # <<>>
  /\ inbox' = Tail(inbox)
  /\ outbox' = IF BatchRaises(Head(inbox)) THEN outbox
               ELSE Append(outbox, [ results |-> WorkerOnMessage(Head(inbox)),
                                     h |-> Head(inbox).h ])
  /\ UNCHANGED <<geoVars, initVars, dbInit,
                 calcVars, cacheVars, harnessVars, stateVars, recalculating,
                 refVars, onmessage, dbQueue, events, lastDispatch, lastDone>>

\* workerRef.current.onmessage up to its await: cacheResults with the date
\* and elevation the handler closed over
HandlerStart ==
  /\ outbox # <<>>
  /\ outbox' = Tail(outbox)
  /\ rows' = CacheResults(rows, Head(outbox).results, onmessage.date,
                          onmessage.elevation)
  /\ dbQueue' = Append(dbQueue, [ kind |-> "insert",
                                  results |-> Head(outbox).results,
                                  date |-> onmessage.date,
                                  elevation |-> onmessage.elevation,
                                  mapLoaded |-> onmessage.mapLoaded,
                                  h |-> Head(outbox).h ])
  /\ UNCHANGED <<geoVars, initVars, dbInit,
                 calcVars, conn, harnessVars, stateVars, recalculating,
                 refVars, onmessage, inbox, events, lastDispatch, lastDone>>

\* the handler's await cacheResults(...) rejects (the INSERT query fails):
\* the handler ends there, nothing catches the rejection
HandlerInsertFails ==
  /\ outbox # <<>>
  /\ outbox' = Tail(outbox)
  /\ UNCHANGED <<geoVars, initVars, dbInit, calcVars, cacheVars, harnessVars,
                 stateVars, recalculating, refVars, onmessage, inbox, dbQueue,
                 events, lastDispatch, lastDone>>

\* the handler after its await: the merge, the render, the flag
HandlerResume ==
  /\ dbQueue # <<>>
  /\ Head(dbQueue).kind = "insert"
  /\ LET c     == Head(dbQueue)
         shown == SetEach(displayedResults, c.results, <<>>)
     IN  /\ dbQueue' = Tail(dbQueue)
         /\ displayedResults' = shown
         /\ mergedFor' = SetEach(mergedFor, c.results, <<c.h.for>>)
         /\ emitted' = IF c.mapLoaded THEN <<shown>> ELSE emitted
         /\ recalculating' = FALSE
         /\ lastDone' = << [ req |-> c.h.req, stale |-> c.h.stale,
                             wiped |-> c.h.wiped, shown |-> DOMAIN shown ] >>
  /\ UNCHANGED <<geoVars, initVars, dbInit, calcVars, cacheVars, harnessVars, stateVars,
                 currentResolution, onmessage, inbox, outbox, events,
                 lastDispatch>>

\* updateH3Grid() on a loaded map with the database ready
UpdateGrid ==
  /\ dbQueue = <<>>
  /\ Commit(GridStart(Refs, date, elevation, manualRes, mapLoaded, dbReady,
                      zoom, view, rows, conn))
  /\ UNCHANGED <<geoVars, initVars, dbInit, calcVars, cacheVars, harnessVars, stateVars,
                 recalculating, onmessage, events, lastDispatch, lastDone>>

Next ==
  \/ MapLoad \/ DbReady \/ InitFail \/ ResolveBroken
  \/ DateChange \/ ElevationChange \/ ManualResChange \/ MoveEnd
  \/ GridResume \/ WorkerStep \/ HandlerStart \/ HandlerInsertFails
  \/ HandlerResume

Spec == AppInit /\ [][Next]_vars

-----------------------------------------------------------------------------
(* SpecRes: the resolution a grid update selects, over zooms and overrides *)

MaxZoom == 90      \* zooms 0..MaxZoom, in tenths

\* the resolution buttons: [null, 1, 2, 3, 4]
ButtonInputs == {Auto} \cup {<<r>> : r \in 1..4}

\* the App with the map loaded, the database ready and nothing in flight
Settled(d, e) ==
  /\ CalcIdle /\ GeoIdle /\ HarnessIdle /\ InitIdle
  /\ dbInit = "ready" /\ conn = TRUE /\ rows = <<>>
  /\ date = d /\ elevation = e
  /\ mapLoaded = TRUE /\ dbReady = TRUE
  /\ view = {1}
  /\ displayedResults = <<>> /\ currentResolution = 1
  /\ onmessage = [date |-> d, elevation |-> e, mapLoaded |-> TRUE]
  /\ outbox = <<>> /\ dbQueue = <<>> /\ emitted = <<>>
  /\ events = 0
  /\ mergedFor = <<>> /\ lastDispatch = <<>> /\ lastDone = <<>>

ResInit ==
  /\ Settled(1, 1000)
  /\ zoom \in 0..MaxZoom
  /\ manualRes \in ButtonInputs
  /\ recalculating = FALSE
  /\ inbox = <<>>

ResNext == UpdateGrid

SpecRes == ResInit /\ [][ResNext]_vars

\* C13: with an override the update uses the override at every zoom;
\* without one the resolution is 1 below z=3, 2 for 3<z<=4.5, 3 for
\* 4.5<z<=6, 4 for 6<z<=8 and 5 above z=8, non-decreasing in zoom and in
\* 1..5 (1 or 2 at exactly z=3); the covering cells are of that resolution.
C13_ResolutionLadder ==
  dbQueue # <<>> =>
     LET r == currentResolution
         z == zoom
     IN  /\ \A i \in 1..Len(dbQueue[1].hexes) : dbQueue[1].hexes[i][1] = r
         /\ manualRes # Auto => r = manualRes[1]
         /\ manualRes = Auto =>
              /\ r \in 1..5
              /\ z < 30 => r = 1
              /\ z = 30 => r \in {1, 2}
              /\ (30 < z /\ z <= 45) => r = 2
              /\ (45 < z /\ z <= 60) => r = 3
              /\ (60 < z /\ z <= 80) => r = 4
              /\ z > 80 => r = 5

\* the upper edge of a band: zoom 4.5 is still resolution 2
C13_Witness ==
  /\ dbQueue # <<>>
  /\ manualRes = Auto /\ zoom = 45 /\ currentResolution = 2
  /\ dbQueue[1].hexes = << <<2, 1>> >>

-----------------------------------------------------------------------------
(* SpecBatch: one batch through the worker and the completion handler,     *)
(* over batches that may hold a point the evaluator raises on              *)

MaxPoints == 2     \* a batch has 1..MaxPoints points

GoodPoints ==
  {[id |-> <<1, n>>, lat |-> CellToLatLng(<<1, n>>)[1],
    lng |-> CellToLatLng(<<1, n>>)[2]] : n \in 1..3}

\* a point with a latitude no cell has
BadPoints == {[id |-> <<1, 4>>, lat |-> 999, lng |-> 1]}

PointBatches ==
  UNION {[1..n -> GoodPoints \cup BadPoints] : n \in 1..MaxPoints}

\* the message updateH3Grid posts for these points (lines 289-292)
BatchMessage(points, d, e) ==
  [ points |-> points, elevation |-> e, date |-> d,
    options |-> [yallop |-> TRUE],
    h |-> [ req |-> [i \in 1..Len(points) |-> points[i].id],
            for |-> [date |-> d, elevation |-> e],
            stale |-> FALSE, wiped |-> FALSE, move |-> FALSE ] ]

BatchInit ==
  \E d \in 0..TicksPerDay, e \in ElevationInputs :
     /\ Settled(d, e)
     /\ zoom = 20 /\ manualRes = Auto
     /\ recalculating = TRUE
     /\ inbox \in {<<BatchMessage(points, d, e)>> : points \in PointBatches}

BatchNext == WorkerStep \/ HandlerStart \/ HandlerResume

SpecBatch == BatchInit /\ [][BatchNext]_vars

\* C19: once the worker has taken the batch there is a completion message
\* (posted, being handled or handled); when it has been handled the flag
\* is off and the working set holds exactly the points of the batch that
\* did not raise.
C19_FailingCellSkipped ==
  inbox = <<>> =>
     /\ outbox # <<>> \/ dbQueue # <<>> \/ lastDone # <<>>
     /\ lastDone # <<>> =>
          /\ ~recalculating
          /\ lastDone[1].shown =
               Range(lastDone[1].req) \cap {p.id : p \in GoodPoints}

\* the colours of worker.js lines 19-28, by qcode
ColorTable ==
  [ A |-> "#22c55e", B |-> "#84cc16", C |-> "#2dd4bf", D |-> "#facc15",
    E |-> "#fb923c", F |-> "rgba(0, 0, 0, 0)", G |-> "#a855f7",
    H |-> "#3b82f6", I |-> "#ef4444", J |-> "rgba(0, 0, 0, 0)" ]

\* C30: when the worker takes a batch none of whose points raises, it posts
\* one completion message with one result per point, in the order of the
\* points: result i has the id of point i, the qcode calculate returns for
\* that point with the elevation, date and options of the message, and the
\* colour of that qcode.
C30_TaggedOneToOne ==
  [][ (inbox # <<>> /\ inbox' = Tail(inbox) /\ ~BatchRaises(Head(inbox)))
      => LET m == Head(inbox) IN
         /\ Len(outbox') = Len(outbox) + 1
         /\ SubSeq(outbox', 1, Len(outbox)) = outbox
         /\ LET r == outbox'[Len(outbox')].results IN
            /\ Len(r) = Len(m.points)
            /\ \A i \in 1..Len(r) :
                  /\ r[i].id = m.points[i].id
                  /\ r[i].qcode =
                       Calculate(SkyTable(m.points[i], m.elevation, m.date),
                                 m.options).qcode
                  /\ r[i].qcode \in DOMAIN ColorTable
                  /\ r[i].color = ColorTable[r[i].qcode] ]_vars

\* a completion message for two points of different cells, with different
\* qcodes
C30_Witness ==
  /\ inbox = <<>> /\ outbox # <<>>
  /\ Len(outbox[1].results) = 2
  /\ outbox[1].results[1].id # outbox[1].results[2].id
  /\ outbox[1].results[1].qcode # outbox[1].results[2].qcode
  /\ outbox[1].h.req = <<outbox[1].results[1].id, outbox[1].results[2].id>>

-----------------------------------------------------------------------------
(* Claims on the controller                                                *)

\* C3: every working-set entry was looked up or computed for the current
\* (date, elevation).
C3_NoStaleMerge ==
  \A id \in DOMAIN displayedResults :
     mergedFor[id] = [date |-> date, elevation |-> elevation]

\* C4: every cache row (cellId, d, e) holds the result of evaluating the
\* cell with elevation e at an instant of day d.
C4_RowsUnderOwnKey ==
  \A i \in 1..Len(rows) :
     \E t \in 0..(TicksPerDay - 1) :
        LET r  == rows[i]
            pt == [id |-> r.id, lat |-> CellToLatLng(r.id)[1],
                   lng |-> CellToLatLng(r.id)[2]]
        IN  r.qcode = Calculate(SkyTable(pt, r.elevation,
                                         r.date * TicksPerDay + t),
                                [yallop |-> TRUE]).qcode

C14_ClearedOnEpochChange ==
  [][ (date' # date \/ elevation' # elevation
         \/ currentResolution' # currentResolution)
        => displayedResults' = <<>> ]_vars

\* a working set that had been rendered with entries is empty after the
\* date changed
C14_Witness ==
  /\ events > 0 /\ date # 1
  /\ emitted # <<>> /\ emitted[1] # <<>>
  /\ displayedResults = <<>>
  /\ dbQueue # <<>>
  /\ dbQueue[Len(dbQueue)].kind = "lookup"
  /\ dbQueue[Len(dbQueue)].date = date

\* C15: every cell of the working set is a cell of currentResolution;
\* results dispatched at a previous resolution are not merged after the
\* switch.
C15_ResolutionHomogeneous ==
  \A id \in DOMAIN displayedResults : id[1] = currentResolution

\* the batches posted to the worker whose completion has not been started
\* to be handled
Outstanding == Range(inbox) \cup Range(outbox)

\* C16: while a batch has been posted to the worker and its completion has
\* not been handled, the recalculating flag is true.
C16_IndicatorCoversBatches ==
  Outstanding # {} => recalculating

IsPrefix(s, t) == Len(s) <= Len(t) /\ SubSeq(t, 1, Len(s)) = s

\* C17: a posted batch is computed and its completion message is handled:
\* a step takes a batch from the worker's input only by posting its
\* completion, and a completion from the worker's output only by starting
\* the handler (which writes the results to the cache).
C17_NoCancellation ==
  [][ /\ inbox # <<>> =>
           \/ IsPrefix(inbox, inbox')
           \/ /\ IsPrefix(Tail(inbox), inbox')
              /\ Len(outbox') = Len(outbox) + 1
      /\ outbox # <<>> =>
           \/ IsPrefix(outbox, outbox')
           \/ /\ IsPrefix(Tail(outbox), outbox')
              /\ Len(dbQueue') = Len(dbQueue) + 1
              /\ dbQueue'[Len(dbQueue')].kind = "insert" ]_vars

\* initDB has rejected and no initialisation is running
InitFailed == dbInit \in {"early", "late", "resolving"}

\* C18: after initDB has failed, a moveend on the loaded map with a
\* viewport that covers cells still starts the pipeline: the update goes on
\* to its lookup (a miss) or posts the covering cells to the worker.
C18_DegradedModeRuns ==
  [][ (InitFailed /\ mapLoaded /\ (zoom' # zoom \/ view' # view)
         /\ view' # {})
        => (Len(dbQueue') > Len(dbQueue) \/ Len(inbox') > Len(inbox)) ]_vars

\* C20: two evaluations dispatched to the worker under the same cache key
\* (cell, UTC day of the date, elevation) are given the same inputs: the
\* same centroid, elevation, date instant and options.
C20_SameKeySameInputs ==
  \A i, j \in 1..Len(inbox) :
     \A k \in 1..Len(inbox[i].points), l \in 1..Len(inbox[j].points) :
        ( /\ inbox[i].points[k].id = inbox[j].points[l].id
          /\ DateStr(inbox[i].date) = DateStr(inbox[j].date)
          /\ inbox[i].elevation = inbox[j].elevation )
        => /\ inbox[i].date = inbox[j].date
           /\ inbox[i].points[k] = inbox[j].points[l]
           /\ inbox[i].options = inbox[j].options


\* the update at the head of the queue has been superseded: an update
\* started after it, for other cells or another date or elevation, is
\* waiting behind it
Superseded ==
  \E i \in 2..Len(dbQueue) :
     /\ dbQueue[i].kind = "lookup"
     /\ <<dbQueue[i].hexes, dbQueue[i].date, dbQueue[i].elevation>>
          # <<dbQueue[1].hexes, dbQueue[1].date, dbQueue[1].elevation>>

\* C23: when an update resumes from its cache lookup after a later update
\* with another viewport, date or elevation has started, it merges no hit
\* and posts no batch.
C23_CoalesceToLatest ==
  [][ ( /\ dbQueue # <<>>
        /\ Head(dbQueue).kind = "lookup"
        /\ dbQueue' = Tail(dbQueue)
        /\ Superseded )
      => (displayedResults' = displayedResults /\ inbox' = inbox) ]_vars

\* the batches of moveend updates with the worker or waiting for their
\* handler, each with the cells it submits
Submissions ==
  {[at |-> <<"inbox", i>>, for |-> inbox[i].h.for,
    ids |-> {inbox[i].points[k].id : k \in 1..Len(inbox[i].points)}] :
      i \in {j \in 1..Len(inbox) : inbox[j].h.move}}
  \cup
  {[at |-> <<"outbox", i>>, for |-> outbox[i].h.for,
    ids |-> {outbox[i].results[k].id : k \in 1..Len(outbox[i].results)}] :
      i \in {j \in 1..Len(outbox) : outbox[j].h.move}}

\* C24: no cell is in two batches in flight that moveend updates submitted
\* for the same date and elevation.
C24_NoRedundantSubmission ==
  \A a, b \in Submissions :
     (a.at # b.at /\ a.for = b.for) => a.ids \cap b.ids = {}



\* C27: a step never removes or rewrites a row of the results table the
\* connection reaches: every row stays, at its place, with its qcode and
\* color.
C27_RowsKept ==
  [][ IsPrefix(rows, rows') ]_vars



\* a step in which the effects or onMoveEnd call updateH3Grid
StartsUpdate ==
  events' # events \/ mapLoaded' # mapLoaded \/ dbReady' # dbReady

\* C28: an update on a loaded map with the database ready whose viewport
\* covers no cell queues no cache lookup, posts no batch, leaves the
\* recalculating flag as it is and gives the renderer the working set,
\* which a moveend that keeps the resolution leaves as it was.
C28_DegenerateViewport ==
  [][ (StartsUpdate /\ mapLoaded' /\ dbReady' /\ view' = {})
      => /\ Len(dbQueue') = Len(dbQueue)
         /\ Len(inbox') <= Len(inbox)
         /\ recalculating' = recalculating
         /\ emitted' = <<displayedResults'>>
         /\ displayedResults' \in {displayedResults, <<>>}
         /\ ( /\ zoom' # zoom \/ view' # view
              /\ currentResolution' = currentResolution )
            => displayedResults' = displayedResults ]_vars

\* the viewport was moved off every cell with results on display, and they
\* are what the renderer has
C28_Witness ==
  /\ events > 0 /\ view = {} /\ mapLoaded /\ dbReady
  /\ displayedResults # <<>>
  /\ emitted = <<displayedResults>>
  /\ dbQueue = <<>> /\ inbox = <<>> /\ outbox = <<>>



\* nothing is awaited, computed or waiting to be handled: only a new event
\* can run code
AtRest == dbQueue = <<>> /\ inbox = <<>> /\ outbox = <<>>

\* C31: when everything started by the events so far has run to its end,
\* the recalculating flag is false (and with no further event it stays as
\* it is).
C31_IndicatorClearsAtRest ==
  AtRest => ~recalculating



\* the working-set entries a step puts in or replaces
Merged ==
  {id \in DOMAIN displayedResults' :
     id \notin DOMAIN displayedResults
       \/ displayedResults'[id] # displayedResults[id]}

=============================================================================
